---- MODULE Spec2Model ----
(***************************************************************************)
(* Model of src/app.py: the request validator attempt_predict, the         *)
(* Prediction table (peewee model over SQLite) and the two Flask handlers  *)
(* /predict and /update, served by concurrent request threads.             *)
(***************************************************************************)
EXTENDS Integers, Sequences, FiniteSets, TLC

VARIABLES store, pc, req, resp, p, calls, vreq, vresp

vars == <<store, pc, req, resp, p, calls, vreq, vresp>>

(***************************************************************************)
(* JSON values as request.get_json() yields them.  A number is v + 1/2     *)
(* when half is set, v being its floor, so 168.5 is (168, TRUE) and -0.5   *)
(* is (-1, TRUE).  t is the Python type: int, float, bool, str or NoneType.*)
(***************************************************************************)
JInt(n) == [t |-> "int", v |-> n, half |-> FALSE, s |-> ""]
JFloat(n, h) == [t |-> "float", v |-> n, half |-> h, s |-> ""]
JBool(b) == [t |-> "bool", v |-> IF b THEN 1 ELSE 0, half |-> FALSE, s |-> ""]
JStr(x) == [t |-> "str", v |-> 0, half |-> FALSE, s |-> x]
JNull == [t |-> "null", v |-> 0, half |-> FALSE, s |-> ""]

\* A JSON object with the keys DOMAIN f, or a JSON body that is no object (null).
Obj(f) == [kind |-> "object", obj |-> f]
NonObj == [kind |-> "other", obj |-> [k \in {} |-> JNull]]

\* isinstance(x, int): bool is a subclass of int in Python.
IsInstanceInt(x) == x.t \in {"int", "bool"}
IsInstanceFloat(x) == x.t = "float"
\* x < k and x > k for a Python number x and an integer literal k.
Lt(x, k) == x.v < k
Gt(x, k) == x.v > k \/ (x.v = k /\ x.half)

\* str.format of a value: what "{}".format(x) prints.
Format(x) ==
  CASE x.t = "str" -> x.s
    [] x.t = "null" -> "None"
    [] x.t = "bool" -> IF x.v = 1 THEN "True" ELSE "False"
    [] x.t = "int" -> ToString(x.v)
    [] x.t = "float" ->
         IF x.half /\ x.v < 0
           THEN (IF x.v = -1 THEN "-0.5" ELSE "-" \o ToString(-x.v - 1) \o ".5")
           ELSE ToString(x.v) \o (IF x.half THEN ".5" ELSE ".0")

(***************************************************************************)
(* attempt_predict: the feature schema                                     *)
(***************************************************************************)
valid_columns ==
  {"age", "sex", "race", "workclass", "education", "marital-status",
   "capital-gain", "capital-loss", "hours-per-week"}

\* The keys of categorical_values_map in insertion order.
categorical_features == <<"sex", "race", "workclass", "education", "marital-status">>

categorical_values_map ==
  [f \in {categorical_features[i] : i \in 1..Len(categorical_features)} |->
     CASE f = "sex" -> {"Male", "Female"}
       [] f = "race" -> {"White", "Black", "Asian-Pac-Islander", "Amer-Indian-Eskimo", "Other"}
       [] f = "workclass" ->
            {"Private", "Self-emp-not-inc", "Local-gov", "?", "State-gov",
             "Self-emp-inc", "Federal-gov", "Without-pay", "Never-worked"}
       [] f = "education" ->
            {"HS-grad", "Some-college", "Bachelors", "Masters", "Assoc-voc", "11th",
             "Assoc-acdm", "10th", "7th-8th", "Prof-school", "9th", "12th",
             "Doctorate", "5th-6th", "1st-4th", "Preschool"}
       [] f = "marital-status" ->
            {"Married-civ-spouse", "Never-married", "Divorced", "Separated",
             "Widowed", "Married-spouse-absent", "Married-AF-spouse"}]

AgeMax == 200
HoursMax == 168

\* (variant: only a string value is looked up in the allowed values)
CategoricalInvalidStrOnly(data, f) ==
  data[f].t = "str" /\ data[f].s \notin categorical_values_map[f]

\* data[feature] not in allowed_values
CategoricalInvalid(data, f) == ~(data[f].t = "str" /\ data[f].s \in categorical_values_map[f])

\* not isinstance(age, int) or age < 0 or age > 200
AgeInvalid(age) == ~IsInstanceInt(age) \/ Lt(age, 0) \/ Gt(age, AgeMax)

\* (variant: hours-per-week tested like age, isinstance(h, int) only)
HoursInvalidIntOnly(h) == ~IsInstanceInt(h) \/ Lt(h, 0) \/ Gt(h, HoursMax)

\* (not isinstance(h, int) and not isinstance(h, float)) or h < 0 or h > 168
HoursInvalid(h) == (~IsInstanceInt(h) /\ ~IsInstanceFloat(h)) \/ Lt(h, 0) \/ Gt(h, HoursMax)

\* (not isinstance(c, int) and not isinstance(c, float)) or c < 0
CapitalInvalid(c) == (~IsInstanceInt(c) /\ ~IsInstanceFloat(c)) \/ Lt(c, 0)

\* (variant: every rejection built like the first one, with observation_id None)
RejectionWithoutId(id, msg) == [observation_id |-> JNull, error |-> msg]

\* The rejection dictionaries.
Rejection(id, msg) == [observation_id |-> id, error |-> msg]
ValueError(feature, x) == feature \o ": " \o Format(x) \o " is not a valid value for this feature"

\* An exception no handler catches: Flask answers 500 and no JSON body is built.
Crash(exc) == [crash |-> exc]

(***************************************************************************)
(* The trained pipeline (data/pipeline.pickle), an opaque deterministic    *)
(* function of the validated observation: probability in percent.          *)
(***************************************************************************)
PredictProba(data) ==
  (data["age"].v + data["hours-per-week"].v
     + (IF data["sex"].s = "Male" THEN 30 ELSE 0)) % 101
Predict(data) == PredictProba(data) >= 50

Min(S) == CHOOSE n \in S : \A m \in S : n <= m

\* (variant: the hours-per-week check placed before the age check)
ValueChecksHoursFirst(id, data) ==
  LET bad == {i \in 1..Len(categorical_features) :
                CategoricalInvalid(data, categorical_features[i])}
  IN IF bad # {}
       THEN Rejection(id, ValueError(categorical_features[Min(bad)],
                                     data[categorical_features[Min(bad)]]))
     ELSE IF HoursInvalid(data["hours-per-week"])
       THEN Rejection(id, ValueError("hours-per-week", data["hours-per-week"]))
     ELSE IF AgeInvalid(data["age"])
       THEN Rejection(id, ValueError("age", data["age"]))
     ELSE IF CapitalInvalid(data["capital-gain"])
       THEN Rejection(id, ValueError("capital-gain", data["capital-gain"]))
     ELSE IF CapitalInvalid(data["capital-loss"])
       THEN Rejection(id, ValueError("capital-loss", data["capital-loss"]))
     ELSE [observation_id |-> id,
           prediction |-> Predict(data),
           probability |-> PredictProba(data)]

\* Lines 120-163: the value checks in order, then the prediction.
ValueChecks(id, data) ==
  LET bad == {i \in 1..Len(categorical_features) :
                CategoricalInvalid(data, categorical_features[i])}
  IN IF bad # {}
       THEN Rejection(id, ValueError(categorical_features[Min(bad)],
                                     data[categorical_features[Min(bad)]]))
     ELSE IF AgeInvalid(data["age"])
       THEN Rejection(id, ValueError("age", data["age"]))
     ELSE IF HoursInvalid(data["hours-per-week"])
       THEN Rejection(id, ValueError("hours-per-week", data["hours-per-week"]))
     ELSE IF CapitalInvalid(data["capital-gain"])
       THEN Rejection(id, ValueError("capital-gain", data["capital-gain"]))
     ELSE IF CapitalInvalid(data["capital-loss"])
       THEN Rejection(id, ValueError("capital-loss", data["capital-loss"]))
     ELSE [observation_id |-> id,
           prediction |-> Predict(data),
           probability |-> PredictProba(data)]

\* (variant: the loop over valid_columns placed before the loop over data.keys())
attempt_predict_missing_first(request) ==
  IF request.kind # "object" THEN {Crash("TypeError")}
  ELSE LET r == request.obj IN
    IF "observation_id" \notin DOMAIN r
      THEN {Rejection(JNull, "observation_id not found in request")}
    ELSE IF "data" \notin DOMAIN r
      \* (the message quotes the word data in backquotes, which a TLA+ string cannot hold)
      THEN {Rejection(r["observation_id"], "data not found in request")}
    ELSE IF r["data"].kind # "object" THEN {Crash("AttributeError")}
    ELSE LET data == r["data"].obj
             request_columns == DOMAIN data
         IN IF valid_columns \ request_columns # {}
              THEN {Rejection(r["observation_id"], column \o " is missing and is required") :
                      column \in valid_columns \ request_columns}
            ELSE IF request_columns \ valid_columns # {}
              THEN {Rejection(r["observation_id"], column \o " not a valid feature") :
                      column \in request_columns \ valid_columns}
            ELSE {ValueChecks(r["observation_id"], data)}

\* attempt_predict(request): the set of results the call can produce.  The
\* loops over data.keys() and over the set valid_columns return at the first
\* offending key their iteration meets, which may be any of them.
attempt_predict(request) ==
  IF request.kind # "object" THEN {Crash("TypeError")}
  ELSE LET r == request.obj IN
    IF "observation_id" \notin DOMAIN r
      THEN {Rejection(JNull, "observation_id not found in request")}
    ELSE IF "data" \notin DOMAIN r
      \* (the message quotes the word data in backquotes, which a TLA+ string cannot hold)
      THEN {Rejection(r["observation_id"], "data not found in request")}
    ELSE IF r["data"].kind # "object" THEN {Crash("AttributeError")}
    ELSE LET data == r["data"].obj
             request_columns == DOMAIN data
         IN IF request_columns \ valid_columns # {}
              THEN {Rejection(r["observation_id"], column \o " not a valid feature") :
                      column \in request_columns \ valid_columns}
            ELSE IF valid_columns \ request_columns # {}
              THEN {Rejection(r["observation_id"], column \o " is missing and is required") :
                      column \in valid_columns \ request_columns}
            ELSE {ValueChecks(r["observation_id"], data)}

(***************************************************************************)
(* Bounded inputs of the validator                                         *)
(***************************************************************************)
Data(sx, rc, wc, ed, ms, ag, hr, cg, cl) ==
  [k \in valid_columns |->
     CASE k = "sex" -> sx [] k = "race" -> rc [] k = "workclass" -> wc
       [] k = "education" -> ed [] k = "marital-status" -> ms
       [] k = "age" -> ag [] k = "hours-per-week" -> hr
       [] k = "capital-gain" -> cg [] k = "capital-loss" -> cl]

SexValues == {JStr("Male"), JStr("male")}
RaceValues == {JStr("White"), JStr("Martian")}
WorkclassValues == {JStr("Private"), JInt(3)}
EducationValues == {JStr("HS-grad"), JNull}
MaritalValues == {JStr("Divorced"), JStr("Single")}
AgeValues ==
  {JInt(0), JInt(37), JInt(AgeMax), JInt(AgeMax + 1), JInt(-1), JFloat(37, TRUE),
   JFloat(37, FALSE), JBool(TRUE), JStr("37"), JNull}
HoursValues ==
  {JInt(0), JInt(HoursMax), JInt(HoursMax + 1), JInt(-1), JFloat(HoursMax, TRUE),
   JFloat(HoursMax - 1, TRUE), JFloat(-1, TRUE), JBool(TRUE), JStr("40"), JNull}
GainValues == {JInt(0), JInt(99999), JInt(-1), JStr("x")}
LossValues == {JInt(0), JFloat(-1, TRUE), JNull}

FullData ==
  {Data(sx, rc, wc, ed, ms, ag, hr, cg, cl) :
     sx \in SexValues, rc \in RaceValues, wc \in WorkclassValues,
     ed \in EducationValues, ms \in MaritalValues, ag \in AgeValues,
     hr \in HoursValues, cg \in GainValues, cl \in LossValues}

GoodData ==
  Data(JStr("Male"), JStr("White"), JStr("Private"), JStr("HS-grad"),
       JStr("Divorced"), JInt(37), JInt(40), JInt(0), JInt(0))
BadData ==
  Data(JStr("male"), JStr("White"), JStr("Private"), JStr("HS-grad"),
       JStr("Divorced"), JInt(AgeMax + 1), JInt(HoursMax + 1), JInt(-1), JInt(-1))

Restrict(f, S) == [k \in S |-> f[k]]
Extend(f, k, x) == [j \in DOMAIN f \cup {k} |-> IF j = k THEN x ELSE f[j]]

\* data objects whose key set is not the nine features
ShapedData ==
  LET base == {GoodData, BadData}
      fewer == {Restrict(d, valid_columns \ drop) :
                  d \in base, drop \in {{"age"}, {"sex"}, {"age", "sex"}, valid_columns}}
  IN fewer \cup {Extend(d, "foo", JInt(1)) : d \in base \cup fewer}
           \cup {Extend(Extend(d, "foo", JInt(1)), "bar", JStr("x")) : d \in base \cup fewer}

IdValues == {JStr("A1"), JInt(7), JNull}

ValidatorBodies ==
  {NonObj, Obj(<<>>), Obj([data |-> Obj(GoodData)]), Obj([data |-> Obj(BadData)]),
   Obj([data |-> NonObj])}
  \cup {Obj([observation_id |-> id]) : id \in IdValues}
  \cup {Obj([observation_id |-> id, data |-> NonObj]) : id \in IdValues}
  \cup {Obj([observation_id |-> id, data |-> Obj(d)]) :
          id \in IdValues, d \in ShapedData}
  \cup {Obj([observation_id |-> JStr("A1"), data |-> Obj(d)]) : d \in FullData}

(***************************************************************************)
(* The Prediction table.  A row is [id, observation_id, observation,       *)
(* proba, true_class]; store[i] is the row with primary key i.             *)
(***************************************************************************)
IntLiteralMax == 9
IsIntLiteral(s) == \E n \in -IntLiteralMax..IntLiteralMax : ToString(n) = s
ParseInt(s) == CHOOSE n \in -IntLiteralMax..IntLiteralMax : ToString(n) = s

\* IntegerField.db_value: None stays None, otherwise int(value), and the
\* value itself when int() raises ValueError.  int() truncates toward zero.
db_value(x) ==
  CASE x.t = "null" -> JNull
    [] x.t \in {"int", "bool"} -> JInt(x.v)
    [] x.t = "float" -> JInt(IF x.v < 0 /\ x.half THEN x.v + 1 ELSE x.v)
    [] x.t = "str" -> IF IsIntLiteral(x.s) THEN JInt(ParseInt(x.s)) ELSE JStr(x.s)

\* The column values of a model instance, as save() sends them.
DbRow(m) ==
  [observation_id |-> db_value(m.observation_id),
   observation |-> m.observation,
   proba |-> m.proba,
   true_class |-> db_value(m.true_class)]

\* (variant: the query carries no WHERE clause)
SelectAny(st, value) == 1..Len(st)

\* SELECT ... WHERE observation_id = value: the primary keys found.
Select(st, value) == {i \in 1..Len(st) : st[i].observation_id = value}

\* (variant: the column is declared without unique=True)
IntegrityErrorNotUnique(st, row) == row.observation_id = JNull

\* The INSERT fails: observation_id is NOT NULL and UNIQUE.
IntegrityError(st, row) ==
  \/ row.observation_id = JNull
  \/ Select(st, row.observation_id) # {}

\* (variant: true_class declared with default=0)
InsertClassZero(st, row) ==
  Append(st, [id |-> Len(st) + 1] @@ [row EXCEPT !.true_class = JInt(0)])

Insert(st, row) == Append(st, [id |-> Len(st) + 1] @@ row)

\* (variant: the instance is changed but never saved)
UpdateNotSaved(st, m) == st
\* (variant: the UPDATE sets true_class on every row)
UpdateEveryRow(st, m) ==
  [i \in 1..Len(st) |-> [st[i] EXCEPT !.true_class = db_value(m.true_class)]]

\* (variant: the UPDATE writes the column default for proba)
UpdateResetsProba(st, m) ==
  [st EXCEPT ![m.id] = [id |-> m.id] @@ [DbRow(m) EXCEPT !.proba = 0]]

\* UPDATE ... SET every field WHERE id = m.id
Update(st, m) == [st EXCEPT ![m.id] = [id |-> m.id] @@ DbRow(m)]

\* model_to_dict(p)
model_to_dict(m) ==
  [id |-> m.id, observation_id |-> m.observation_id, observation |-> m.observation,
   proba |-> m.proba, true_class |-> m.true_class]

(***************************************************************************)
(* The request threads of the server                                       *)
(***************************************************************************)
NumThreads == 2
Threads == 1..NumThreads

NoReq == [route |-> "", body |-> NonObj]
NoResp == [none |-> TRUE]
NoP == [none |-> TRUE]
\* Invocations of the pipeline's two entry points made for a request.
NoCalls == [predict |-> 0, predict_proba |-> 0]

Returned(t) == pc[t] = "done"
IsCrash(r) == "crash" \in DOMAIN r
HasError(r) == "error" \in DOMAIN r

\* (variant: the pipeline is run before the checks, on every request object)
PipelineCallsBeforeChecks(response) ==
  IF IsCrash(response) THEN NoCalls ELSE [predict |-> 1, predict_proba |-> 1]

\* attempt_predict, lines 153-156: pipeline.predict and pipeline.predict_proba
\* are each called once, on the path that returns the prediction fields; every
\* rejection returns before them.
PipelineCalls(response) ==
  IF "prediction" \in DOMAIN response
    THEN [predict |-> 1, predict_proba |-> 1]
    ELSE NoCalls

DuplicateMessage(id) == "ERROR: Observation ID: '" \o Format(id) \o "' already exists"
NotFoundMessage(id) == "Observation ID: \"" \o Format(id) \o "\" does not exist"

\* (variant: a rejected request is saved too, with the column default for proba)
PredictBeginSavesRejected(t, body) ==
  /\ pc[t] = "idle"
  /\ req' = [req EXCEPT ![t] = [route |-> "/predict", body |-> body]]
  /\ \E response \in attempt_predict(body) :
       /\ resp' = [resp EXCEPT ![t] = response]
       /\ IF IsCrash(response)
            THEN /\ pc' = [pc EXCEPT ![t] = "done"]
                 /\ p' = p
            ELSE /\ pc' = [pc EXCEPT ![t] = "predict_save"]
                 /\ p' = [p EXCEPT ![t] =
                            [observation_id |-> response.observation_id,
                             proba |-> IF HasError(response) THEN 0
                                       ELSE response.probability,
                             observation |-> body,
                             true_class |-> JNull]]
       /\ calls' = [calls EXCEPT ![t] = PipelineCalls(response)]
  /\ UNCHANGED <<store, vreq, vresp>>

\* /predict, lines 177-190: parse, validate and score, build the instance.
PredictBegin(t, body) ==
  /\ pc[t] = "idle"
  /\ req' = [req EXCEPT ![t] = [route |-> "/predict", body |-> body]]
  /\ \E response \in attempt_predict(body) :
       /\ resp' = [resp EXCEPT ![t] = response]
       /\ IF IsCrash(response) \/ HasError(response)
            THEN /\ pc' = [pc EXCEPT ![t] = "done"]
                 /\ p' = p
            ELSE /\ pc' = [pc EXCEPT ![t] = "predict_save"]
                 /\ p' = [p EXCEPT ![t] =
                            [observation_id |-> response.observation_id,
                             proba |-> response.probability,
                             observation |-> body,
                             true_class |-> JNull]]
       /\ calls' = [calls EXCEPT ![t] = PipelineCalls(response)]
  /\ UNCHANGED <<store, vreq, vresp>>

\* (variant: on a duplicate the handler answers with the stored record's proba)
PredictSaveStoredProba(t) ==
  /\ pc[t] = "predict_save"
  /\ IF IntegrityError(store, DbRow(p[t]))
       THEN /\ store' = store
            /\ resp' = [resp EXCEPT ![t] =
                          [k \in DOMAIN resp[t] \cup {"error"} |->
                             IF k = "error" THEN DuplicateMessage(resp[t].observation_id)
                             ELSE IF k = "probability"
                                    /\ Select(store, DbRow(p[t]).observation_id) # {}
                               THEN store[Min(Select(store, DbRow(p[t]).observation_id))].proba
                             ELSE resp[t][k]]]
       ELSE /\ store' = Insert(store, DbRow(p[t]))
            /\ resp' = resp
  /\ pc' = [pc EXCEPT ![t] = "done"]
  /\ UNCHANGED <<req, p, calls, vreq, vresp>>

\* /predict, lines 191-198: p.save() and the IntegrityError handler.
PredictSave(t) ==
  /\ pc[t] = "predict_save"
  /\ IF IntegrityError(store, DbRow(p[t]))
       THEN /\ store' = store
            /\ resp' = [resp EXCEPT ![t] =
                          [k \in DOMAIN resp[t] \cup {"error"} |->
                             IF k = "error" THEN DuplicateMessage(resp[t].observation_id)
                             ELSE resp[t][k]]]
       ELSE /\ store' = Insert(store, DbRow(p[t]))
            /\ resp' = resp
  /\ pc' = [pc EXCEPT ![t] = "done"]
  /\ UNCHANGED <<req, p, calls, vreq, vresp>>

\* /update, lines 203-206 and 209-211: parse, look the record up, set true_class.
UpdateGet(t, body) ==
  /\ pc[t] = "idle"
  /\ req' = [req EXCEPT ![t] = [route |-> "/update", body |-> body]]
  /\ IF body.kind # "object"
       THEN /\ resp' = [resp EXCEPT ![t] = Crash("TypeError")]
            /\ pc' = [pc EXCEPT ![t] = "done"]
            /\ p' = p
     ELSE IF "id" \notin DOMAIN body.obj
       THEN /\ resp' = [resp EXCEPT ![t] = Crash("KeyError")]
            /\ pc' = [pc EXCEPT ![t] = "done"]
            /\ p' = p
     ELSE IF Select(store, db_value(body.obj["id"])) = {}
       THEN /\ resp' = [resp EXCEPT ![t] = [error |-> NotFoundMessage(body.obj["id"])]]
            /\ pc' = [pc EXCEPT ![t] = "done"]
            /\ p' = p
     ELSE IF "true_class" \notin DOMAIN body.obj
       THEN /\ resp' = [resp EXCEPT ![t] = Crash("KeyError")]
            /\ pc' = [pc EXCEPT ![t] = "done"]
            /\ p' = p
     ELSE /\ resp' = resp
          /\ pc' = [pc EXCEPT ![t] = "update_save"]
          /\ p' = [p EXCEPT ![t] =
                     [store[Min(Select(store, db_value(body.obj["id"])))]
                        EXCEPT !.true_class = body.obj["true_class"]]]
  /\ UNCHANGED <<store, calls, vreq, vresp>>

\* /update, lines 207-208: p.save() and the response.
UpdateSave(t) ==
  /\ pc[t] = "update_save"
  /\ store' = Update(store, p[t])
  /\ resp' = [resp EXCEPT ![t] = model_to_dict(p[t])]
  /\ pc' = [pc EXCEPT ![t] = "done"]
  /\ UNCHANGED <<req, p, calls, vreq, vresp>>

\* The response is sent and the thread takes the next request.
Return(t) ==
  /\ pc[t] = "done"
  /\ pc' = [pc EXCEPT ![t] = "idle"]
  /\ req' = [req EXCEPT ![t] = NoReq]
  /\ resp' = [resp EXCEPT ![t] = NoResp]
  /\ p' = [p EXCEPT ![t] = NoP]
  /\ calls' = [calls EXCEPT ![t] = NoCalls]
  /\ UNCHANGED <<store, vreq, vresp>>

(***************************************************************************)
(* Bounded requests of the handlers                                        *)
(***************************************************************************)
GoodData2 ==
  Data(JStr("Female"), JStr("Black"), JStr("Private"), JStr("Masters"),
       JStr("Widowed"), JInt(AgeMax), JFloat(20, TRUE), JInt(5), JInt(0))

ScoreBodies ==
  {Obj([observation_id |-> JStr("A1"), data |-> Obj(GoodData)]),
   Obj([observation_id |-> JStr("A1"), data |-> Obj(GoodData2)]),
   Obj([observation_id |-> JInt(7), data |-> Obj(GoodData)]),
   Obj([observation_id |-> JNull, data |-> Obj(GoodData)]),
   Obj([observation_id |-> JStr("A1"), data |-> Obj(BadData)]),
   Obj([observation_id |-> JStr("A1"), data |-> NonObj]),
   Obj([data |-> Obj(GoodData)]),
   NonObj}

UpdateBodies ==
  {Obj([id |-> JStr("A1"), true_class |-> JInt(1)]),
   Obj([id |-> JStr("A1"), true_class |-> JInt(0)]),
   Obj([id |-> JInt(7), true_class |-> JInt(1)]),
   Obj([id |-> JStr("ZZ"), true_class |-> JInt(1)]),
   Obj([id |-> JStr("A1")]),
   Obj([true_class |-> JInt(1)]),
   NonObj}

Init ==
  /\ store = <<>>
  /\ pc = [t \in Threads |-> "idle"]
  /\ req = [t \in Threads |-> NoReq]
  /\ resp = [t \in Threads |-> NoResp]
  /\ p = [t \in Threads |-> NoP]
  /\ calls = [t \in Threads |-> NoCalls]
  /\ vreq = NonObj
  /\ vresp = NoResp

Next ==
  \E t \in Threads :
    \/ \E body \in ScoreBodies : PredictBegin(t, body)
    \/ PredictSave(t)
    \/ \E body \in UpdateBodies : UpdateGet(t, body)
    \/ UpdateSave(t)
    \/ Return(t)

Spec == Init /\ [][Next]_vars

(***************************************************************************)
(* The validator alone, applied once to each bounded request               *)
(***************************************************************************)
InitV ==
  /\ store = <<>>
  /\ pc = [t \in Threads |-> "idle"]
  /\ req = [t \in Threads |-> NoReq]
  /\ resp = [t \in Threads |-> NoResp]
  /\ p = [t \in Threads |-> NoP]
  /\ calls = [t \in Threads |-> NoCalls]
  /\ vreq \in ValidatorBodies
  /\ vresp = NoResp

Validate ==
  /\ vresp = NoResp
  /\ vresp' \in attempt_predict(vreq)
  /\ UNCHANGED <<store, pc, req, resp, p, calls, vreq>>

NextV == Validate

SpecV == InitV /\ [][NextV]_vars

\* The score route alone, with one request for each of the nine checks to
\* reject and two that pass.
CheckBodies ==
  {Obj([data |-> Obj(GoodData)]),
   Obj([observation_id |-> JStr("A1")]),
   Obj([observation_id |-> JStr("A1"), data |-> Obj(Extend(GoodData, "foo", JInt(1)))]),
   Obj([observation_id |-> JStr("A1"),
        data |-> Obj(Restrict(GoodData, valid_columns \ {"age"}))]),
   Obj([observation_id |-> JStr("A1"),
        data |-> Obj([GoodData EXCEPT !["sex"] = JStr("male")])]),
   Obj([observation_id |-> JStr("A1"),
        data |-> Obj([GoodData EXCEPT !["age"] = JInt(AgeMax + 1)])]),
   Obj([observation_id |-> JStr("A1"),
        data |-> Obj([GoodData EXCEPT !["hours-per-week"] = JInt(HoursMax + 1)])]),
   Obj([observation_id |-> JStr("A1"),
        data |-> Obj([GoodData EXCEPT !["capital-gain"] = JInt(-1)])]),
   Obj([observation_id |-> JStr("A1"),
        data |-> Obj([GoodData EXCEPT !["capital-loss"] = JInt(-1)])]),
   Obj([observation_id |-> JStr("A1"), data |-> Obj(GoodData)]),
   Obj([observation_id |-> JInt(7), data |-> Obj(GoodData2)])}

NextScore ==
  \E t \in Threads :
    \/ \E body \in CheckBodies : PredictBegin(t, body)
    \/ PredictSave(t)
    \/ Return(t)

SpecScore == Init /\ [][NextScore]_vars

(***************************************************************************)
(* Properties of the store and the handlers                                *)
(***************************************************************************)
\* The steps of a thread, read off its program counter and route.
PredictBeginStep(t) == pc[t] = "idle" /\ pc'[t] # "idle" /\ req'[t].route = "/predict"
PredictSaveStep(t) == pc[t] = "predict_save" /\ pc'[t] = "done"
UpdateGetStep(t) == pc[t] = "idle" /\ pc'[t] # "idle" /\ req'[t].route = "/update"
UpdateSaveStep(t) == pc[t] = "update_save" /\ pc'[t] = "done"

\* The stored rows an identifier of a request denotes.
RowsOf(st, id) == {i \in 1..Len(st) : st[i].observation_id = db_value(id)}
IsStored(st, id) == \E i \in 1..Len(st) : st[i].observation_id = db_value(id)
\* An identifier as the interface declares it: a string or a number.
StringOrNumber(id) == id.t \in {"str", "int", "float"}
\* A returned /predict response that carries the prediction fields.
Scored(t) ==
  /\ Returned(t) /\ req[t].route = "/predict"
  /\ {"observation_id", "prediction", "probability"} \subseteq DOMAIN resp[t]

UniqueIds ==
  \A i, j \in 1..Len(store) :
    store[i].observation_id = store[j].observation_id => i = j

RecordsKept ==
  /\ Len(store') >= Len(store)
  /\ \A i \in 1..Len(store) :
       /\ store'[i].observation_id = store[i].observation_id
       /\ store'[i].observation = store[i].observation
       /\ store'[i].proba = store[i].proba

\* C1: in every reachable state no two stored records share an observation_id,
\* and no step (in particular no score request for a stored id) changes the
\* observation_id, observation or proba of a record that is already stored.
C1_UniqueNeverOverwritten == []UniqueIds /\ [][RecordsKept]_vars

\* C1 witness: a score request for a stored id has returned the duplicate
\* error while the stored record still holds another request's payload.
C1_Witness ==
  \E t \in Threads :
    /\ Scored(t) /\ HasError(resp[t])
    /\ \E i \in RowsOf(store, resp[t].observation_id) :
         store[i].observation # req[t].body

\* C2: a validated score request whose id is not stored is answered without
\* an error field; one whose id is stored is answered with observation_id,
\* prediction, probability and the duplicate error, the store left as it was.
C2_FirstSucceedsSecondDuplicate ==
  [][\A t \in Threads :
       PredictSaveStep(t) =>
         IF IsStored(store, p[t].observation_id)
           THEN /\ store' = store
                /\ DOMAIN resp'[t] = {"observation_id", "prediction", "probability", "error"}
                /\ resp'[t].error = DuplicateMessage(p[t].observation_id)
           ELSE ~HasError(resp'[t])]_vars

\* C3: scoring a valid record under a string or numeric id that is not stored
\* leaves exactly one record for the id, with true_class null; a correct for
\* a stored id reaches its save, and saving true_class = 1 leaves the looked-up
\* record with true_class = 1 and the proba it had.
C3_EndToEnd ==
  [][\A t \in Threads :
       /\ (PredictSaveStep(t) /\ StringOrNumber(p[t].observation_id)
             /\ ~IsStored(store, p[t].observation_id))
            => /\ Cardinality(RowsOf(store', p[t].observation_id)) = 1
               /\ \A i \in RowsOf(store', p[t].observation_id) :
                    /\ store'[i].true_class = JNull
                    /\ store'[i].proba = resp'[t].probability
                    /\ store'[i].observation = req[t].body
               /\ ~HasError(resp'[t])
       /\ (UpdateGetStep(t) /\ req'[t].body.kind = "object"
             /\ {"id", "true_class"} \subseteq DOMAIN req'[t].body.obj
             /\ IsStored(store, req'[t].body.obj["id"]))
            => pc'[t] = "update_save"
       /\ (UpdateSaveStep(t) /\ req[t].body.obj["true_class"] = JInt(1))
            => /\ Cardinality(RowsOf(store', req[t].body.obj["id"])) = 1
               /\ \A i \in RowsOf(store', req[t].body.obj["id"]) :
                    /\ store'[i].true_class = JInt(1)
                    /\ i \in RowsOf(store, req[t].body.obj["id"])
                    /\ store'[i].proba = store[i].proba
                    /\ resp'[t].true_class = JInt(1)
                    /\ resp'[t].proba = store[i].proba]_vars

\* C3 witness: the record scored under the string id A1 has been corrected to 1.
C3_Witness ==
  \E t \in Threads :
    /\ Returned(t) /\ req[t].route = "/update"
    /\ "true_class" \in DOMAIN resp[t] /\ resp[t].true_class = JInt(1)
    /\ resp[t].observation_id = JStr("A1")
    /\ \E i \in 1..Len(store) :
         store[i].observation_id = JStr("A1") /\ store[i].true_class = JInt(1)

\* C4: a correct request whose id is not in the store ends at once with the
\* does-not-exist error, and the store is the same after it.
C4_UnknownIdNoChange ==
  [][\A t \in Threads :
       (UpdateGetStep(t) /\ req'[t].body.kind = "object"
          /\ "id" \in DOMAIN req'[t].body.obj
          /\ ~\E i \in 1..Len(store) :
               store[i].observation_id = db_value(req'[t].body.obj["id"]))
         => /\ pc'[t] = "done"
            /\ resp'[t] = [error |-> NotFoundMessage(req'[t].body.obj["id"])]
            /\ store' = store]_vars

\* C4 witness: a correct for an unknown id has returned its error while the
\* store holds records.
C4_Witness ==
  \E t \in Threads :
    /\ Returned(t) /\ req[t].route = "/update"
    /\ DOMAIN resp[t] = {"error"}
    /\ Len(store) > 0

\* C5: a correct for a stored id proceeds to its save, also when true_class
\* is already set; the save sets that record's true_class to the supplied
\* value and changes nothing else in the store, and the response is the
\* stored record.
C5_CorrectSetsTrueClassOnly ==
  [][\A t \in Threads :
       /\ (UpdateGetStep(t) /\ req'[t].body.kind = "object"
             /\ {"id", "true_class"} \subseteq DOMAIN req'[t].body.obj
             /\ IsStored(store, req'[t].body.obj["id"]))
            => /\ pc'[t] = "update_save"
               /\ store' = store
       /\ UpdateSaveStep(t)
            => \E k \in RowsOf(store, req[t].body.obj["id"]) :
                 /\ store' = [store EXCEPT ![k].true_class = req[t].body.obj["true_class"]]
                 /\ resp'[t] = store'[k]]_vars

\* C5 witness: two corrects of the same record have returned different
\* values, and the record holds the newer one.
C5_Witness ==
  \E t, u \in Threads :
    /\ Returned(t) /\ req[t].route = "/update" /\ "true_class" \in DOMAIN resp[t]
    /\ Returned(u) /\ req[u].route = "/update" /\ "true_class" \in DOMAIN resp[u]
    /\ resp[t].id = resp[u].id
    /\ resp[t].true_class = JInt(1) /\ resp[u].true_class = JInt(0)
    /\ store[resp[t].id].true_class = JInt(0)
    /\ Len(store) > 1

(***************************************************************************)
(* Properties of the validator                                             *)
(***************************************************************************)
HasDataObject(b) ==
  b.kind = "object" /\ "data" \in DOMAIN b.obj /\ b.obj["data"].kind = "object"
DataOf(b) == b.obj["data"].obj

\* Check n of the nine fails on the object b (a value check only on a key
\* that is there).
CheckFails(n, b) ==
  CASE n = 1 -> "observation_id" \notin DOMAIN b.obj
    [] n = 2 -> "data" \notin DOMAIN b.obj
    [] n = 3 -> HasDataObject(b) /\ DOMAIN DataOf(b) \ valid_columns # {}
    [] n = 4 -> HasDataObject(b) /\ valid_columns \ DOMAIN DataOf(b) # {}
    [] n = 5 -> HasDataObject(b) /\
                \E i \in 1..Len(categorical_features) :
                  /\ categorical_features[i] \in DOMAIN DataOf(b)
                  /\ CategoricalInvalid(DataOf(b), categorical_features[i])
    [] n = 6 -> HasDataObject(b) /\ "age" \in DOMAIN DataOf(b)
                /\ AgeInvalid(DataOf(b)["age"])
    [] n = 7 -> HasDataObject(b) /\ "hours-per-week" \in DOMAIN DataOf(b)
                /\ HoursInvalid(DataOf(b)["hours-per-week"])
    [] n = 8 -> HasDataObject(b) /\ "capital-gain" \in DOMAIN DataOf(b)
                /\ CapitalInvalid(DataOf(b)["capital-gain"])
    [] n = 9 -> HasDataObject(b) /\ "capital-loss" \in DOMAIN DataOf(b)
                /\ CapitalInvalid(DataOf(b)["capital-loss"])
FailingChecks(b) == {n \in 1..9 : CheckFails(n, b)}

\* The rejection r of the object b is the one check n gives.
RejectionOf(n, r, b) ==
  CASE n = 1 -> r.error = "observation_id not found in request"
    [] n = 2 -> r.error = "data not found in request"
    [] n = 3 -> HasDataObject(b) /\
                \E c \in DOMAIN DataOf(b) \ valid_columns : r.error = c \o " not a valid feature"
    [] n = 4 -> \E c \in valid_columns : r.error = c \o " is missing and is required"
    [] n = 5 -> HasDataObject(b) /\
                \E i \in 1..Len(categorical_features) :
                  /\ categorical_features[i] \in DOMAIN DataOf(b)
                  /\ r.error = ValueError(categorical_features[i],
                                          DataOf(b)[categorical_features[i]])
    [] n = 6 -> HasDataObject(b) /\ "age" \in DOMAIN DataOf(b)
                /\ r.error = ValueError("age", DataOf(b)["age"])
    [] n = 7 -> HasDataObject(b) /\ "hours-per-week" \in DOMAIN DataOf(b)
                /\ r.error = ValueError("hours-per-week", DataOf(b)["hours-per-week"])
    [] n = 8 -> HasDataObject(b) /\ "capital-gain" \in DOMAIN DataOf(b)
                /\ r.error = ValueError("capital-gain", DataOf(b)["capital-gain"])
    [] n = 9 -> HasDataObject(b) /\ "capital-loss" \in DOMAIN DataOf(b)
                /\ r.error = ValueError("capital-loss", DataOf(b)["capital-loss"])
ReportedChecks(r, b) == {n \in 1..9 : RejectionOf(n, r, b)}

Validated == vresp # NoResp
\* v lies in [lo, hi]
InRange(x, lo, hi) == x.v >= lo /\ (x.v < hi \/ (x.v = hi /\ ~x.half))

\* C6: the validator's answer to a request object is a rejection exactly when
\* one of the nine checks fails, and the rejection is the one of the
\* lowest-numbered failing check and of no other check.
C6_FirstFailingCheckWins ==
  (Validated /\ vreq.kind = "object" /\ ~IsCrash(vresp)) =>
    IF FailingChecks(vreq) = {}
      THEN ~HasError(vresp)
      ELSE /\ HasError(vresp)
           /\ ReportedChecks(vresp, vreq) = {Min(FailingChecks(vreq))}

\* C6 witness: a request failing the age, hours-per-week and both capital
\* checks at once has been rejected.
C6_Witness ==
  /\ Validated /\ HasError(vresp)
  /\ FailingChecks(vreq) = {6, 7, 8, 9}

\* C7: no returned response of either handler is an unhandled failure; every
\* malformed request is answered with an error field.
C7_ClientFaultsRecovered ==
  \A t \in Threads : Returned(t) => ~IsCrash(resp[t])

Checks1to6Pass(b) == HasDataObject(b) /\ FailingChecks(b) \cap (1..6) = {}
HoursRejected ==
  /\ HasError(vresp)
  /\ vresp.error = ValueError("hours-per-week", DataOf(vreq)["hours-per-week"])

Checks1to5Pass(b) == HasDataObject(b) /\ FailingChecks(b) \cap (1..5) = {}
AgeRejected ==
  /\ HasError(vresp)
  /\ vresp.error = ValueError("age", DataOf(vreq)["age"])

\* C9: with checks 1-5 passing, age is accepted exactly when it is an
\* integral number in [0, 200]; a boolean, a string, null and a real fail.
C9_AgeIntegralInRange ==
  (Validated /\ Checks1to5Pass(vreq)) =>
    (~AgeRejected <=>
       LET age == DataOf(vreq)["age"]
       IN age.t = "int" /\ InRange(age, 0, AgeMax))

(***************************************************************************)
(* Concurrent score requests                                               *)
(***************************************************************************)
\* C10: of the score requests for one string or numeric id that are answered
\* at the same time, at most one has no error field and the others carry the
\* duplicate error; the store then holds exactly one record for the id; and a
\* save answers without error exactly when the id was not stored before it.
C10_OneInsertWins ==
  /\ [](\A t, u \in Threads :
          (t # u /\ Scored(t) /\ Scored(u)
             /\ StringOrNumber(resp[t].observation_id)
             /\ db_value(resp[t].observation_id) = db_value(resp[u].observation_id))
            => HasError(resp[t]) \/ HasError(resp[u]))
  /\ [](\A t \in Threads :
          (Scored(t) /\ StringOrNumber(resp[t].observation_id))
            => /\ Cardinality({i \in 1..Len(store) :
                     store[i].observation_id = db_value(resp[t].observation_id)}) = 1
               /\ HasError(resp[t])
                    => resp[t].error = DuplicateMessage(resp[t].observation_id))
  /\ [][\A t \in Threads :
          (PredictSaveStep(t) /\ StringOrNumber(p[t].observation_id))
            => (HasError(resp'[t]) <=> IsStored(store, p[t].observation_id))]_vars

\* C10 witness: two score requests for the same id are answered at the same
\* time, one without and one with the duplicate error.
C10_Witness ==
  \E t, u \in Threads :
    /\ t # u /\ Scored(t) /\ Scored(u)
    /\ StringOrNumber(resp[t].observation_id)
    /\ resp[t].observation_id = resp[u].observation_id
    /\ ~HasError(resp[t]) /\ HasError(resp[u])
    /\ req[t].body # req[u].body

(***************************************************************************)
(* Properties of the rejections                                            *)
(***************************************************************************)
Rejected == Validated /\ vreq.kind = "object" /\ HasError(vresp)
IdSupplied(b) == "observation_id" \in DOMAIN b.obj

\* C11 as stated: every rejection carries the observation_id the caller
\* supplied, and its observation_id is null only when it is the rejection of
\* check 1, which has observation_id null and a non-empty error.
C11_NullOnlyForCheck1 ==
  Rejected =>
    /\ IdSupplied(vreq) => vresp.observation_id = vreq.obj["observation_id"]
    /\ ~IdSupplied(vreq) => (vresp.observation_id = JNull /\ vresp.error # "")
    /\ vresp.observation_id = JNull => ReportedChecks(vresp, vreq) = {1}

\* C11 amended: every rejection carries the observation_id the caller
\* supplied; the rejection of check 1 has observation_id null and a non-empty
\* error; any other rejection has observation_id null only when the caller
\* supplied null as the observation_id.
C11_CarriesSuppliedId ==
  Rejected =>
    /\ IdSupplied(vreq) => vresp.observation_id = vreq.obj["observation_id"]
    /\ ~IdSupplied(vreq) => (vresp.observation_id = JNull /\ vresp.error # "")
    /\ vresp.observation_id = JNull =>
         \/ ReportedChecks(vresp, vreq) = {1}
         \/ (IdSupplied(vreq) /\ vreq.obj["observation_id"] = JNull)

\* C11 witness: a request that supplied the id 7 has been rejected by a value
\* check and the rejection carries 7.
C11_Witness ==
  /\ Rejected /\ IdSupplied(vreq)
  /\ vreq.obj["observation_id"] = JInt(7)
  /\ vresp.observation_id = JInt(7)
  /\ 1 \notin FailingChecks(vreq)

UnknownKeys(b) == DOMAIN DataOf(b) \ valid_columns
MissingKeys(b) == valid_columns \ DOMAIN DataOf(b)
ShapeChecked(b) == HasDataObject(b) /\ FailingChecks(b) \cap {1, 2} = {}

\* C12: with observation_id and data present, a data object with keys outside
\* the nine features is rejected with an error naming one of those unknown
\* keys, also when required keys are missing; a data object with no unknown
\* key that lacks required keys is rejected with an error naming one of the
\* missing keys.
C12_ShapeErrorNamesKey ==
  (Validated /\ ShapeChecked(vreq)) =>
    /\ UnknownKeys(vreq) # {} =>
         /\ HasError(vresp)
         /\ \E c \in UnknownKeys(vreq) : vresp.error = c \o " not a valid feature"
    /\ (UnknownKeys(vreq) = {} /\ MissingKeys(vreq) # {}) =>
         /\ HasError(vresp)
         /\ \E c \in MissingKeys(vreq) : vresp.error = c \o " is missing and is required"

\* C12 witness: a request with an unknown key and missing required keys has
\* been rejected.
C12_Witness ==
  /\ Validated /\ ShapeChecked(vreq) /\ HasError(vresp)
  /\ UnknownKeys(vreq) = {"foo"} /\ MissingKeys(vreq) = {"age", "sex"}

Checks1to4Pass(b) == HasDataObject(b) /\ FailingChecks(b) \cap (1..4) = {}
\* x is one of the values declared for the feature f.
InDomain(f, x) == x.t = "str" /\ x.s \in categorical_values_map[f]
DeclaredOrder == <<"sex", "race", "workclass", "education", "marital-status">>
OutOfDomain(b) == {i \in 1..Len(DeclaredOrder) : ~InDomain(DeclaredOrder[i], DataOf(b)[DeclaredOrder[i]])}
CategoricalRejections(b) ==
  {ValueError(DeclaredOrder[i], DataOf(b)[DeclaredOrder[i]]) : i \in 1..Len(DeclaredOrder)}

\* C13: with checks 1-4 passing, a categorical value outside its declared
\* domain is rejected with the error naming the first such feature in declared
\* order and its value; when all five values are inside their domains the
\* answer is no rejection of a categorical feature.
C13_CategoricalDomains ==
  (Validated /\ Checks1to4Pass(vreq)) =>
    IF OutOfDomain(vreq) # {}
      THEN /\ HasError(vresp)
           /\ vresp.error = ValueError(DeclaredOrder[Min(OutOfDomain(vreq))],
                                       DataOf(vreq)[DeclaredOrder[Min(OutOfDomain(vreq))]])
      ELSE HasError(vresp) => vresp.error \notin CategoricalRejections(vreq)

\* C13 witness: a request whose workclass is the number 3 and whose education
\* is null, the other categorical values valid, has been rejected.
C13_Witness ==
  /\ Validated /\ Checks1to4Pass(vreq) /\ HasError(vresp)
  /\ OutOfDomain(vreq) = {3, 4}

(***************************************************************************)
(* Lifecycle of a record, scoring, and interleaved requests                *)
(***************************************************************************)
\* A step changes the true_class of row i only as the save of a correct for
\* that row's id, to the value that correct supplied.
TrueClassSetByCorrect(i) ==
  store'[i].true_class # store[i].true_class =>
    \E t \in Threads :
      /\ UpdateSaveStep(t)
      /\ store[i].observation_id = db_value(req[t].body.obj["id"])
      /\ store'[i].true_class = req[t].body.obj["true_class"]

\* C14: in every step the store keeps its records (none is deleted); a record
\* that appears is new with true_class null; of a stored record only
\* true_class changes, and only by a correct for its id that succeeds.
C14_Lifecycle ==
  [][/\ Len(store') >= Len(store)
     /\ \A i \in 1..Len(store') :
          IF i > Len(store)
            THEN /\ store'[i].true_class = JNull
                 /\ \E t \in Threads : PredictSaveStep(t)
            ELSE /\ [store'[i] EXCEPT !.true_class = JNull]
                      = [store[i] EXCEPT !.true_class = JNull]
                 /\ TrueClassSetByCorrect(i)]_vars

\* C14 witness: the store holds a record never corrected and a corrected one.
C14_Witness ==
  /\ Len(store) = 2
  /\ \E i, j \in 1..Len(store) :
       store[i].true_class = JNull /\ store[j].true_class # JNull

\* C15: two answered score requests that carry the same valid data have the
\* same prediction and probability, whatever their ids and whether or not
\* either is a duplicate, and a stored record of that data holds that
\* probability.
C15_SameDataSameScore ==
  \A t \in Threads :
    Scored(t) =>
      /\ \A u \in Threads :
           (Scored(u) /\ req[u].body.obj["data"] = req[t].body.obj["data"])
             => /\ resp[u].prediction = resp[t].prediction
                /\ resp[u].probability = resp[t].probability
      /\ \A i \in 1..Len(store) :
           store[i].observation.obj["data"] = req[t].body.obj["data"]
             => store[i].proba = resp[t].probability

\* C15 witness: the same data has been scored under two ids, once as a
\* duplicate of a record that holds other data.
C15_Witness ==
  \E t, u \in Threads :
    /\ Scored(t) /\ Scored(u) /\ t # u
    /\ req[t].body.obj["data"] = req[u].body.obj["data"]
    /\ HasError(resp[t]) /\ ~HasError(resp[u])
    /\ \E i \in RowsOf(store, resp[t].observation_id) :
         store[i].observation.obj["data"] # req[t].body.obj["data"]

\* C17: a correct between its lookup and its save holds the observation_id,
\* observation and proba its record still has; no step changes observation or
\* proba of a stored record; true_class changes only to the value supplied by
\* a correct for that id whose save runs; a correct answered with the
\* not-found error ends without a save and leaves the store as it was.
C17_InterleavedScoreAndCorrect ==
  /\ [](\A t \in Threads :
          pc[t] = "update_save" =>
            /\ p[t].id \in 1..Len(store)
            /\ store[p[t].id].observation_id = p[t].observation_id
            /\ store[p[t].id].observation = p[t].observation
            /\ store[p[t].id].proba = p[t].proba)
  /\ [][/\ \A i \in 1..Len(store) :
             /\ i <= Len(store')
             /\ store'[i].observation = store[i].observation
             /\ store'[i].proba = store[i].proba
             /\ TrueClassSetByCorrect(i)
        /\ \A t \in Threads :
             (UpdateGetStep(t) /\ DOMAIN resp'[t] = {"error"})
               => (pc'[t] = "done" /\ store' = store)]_vars

\* C17 witness: while a correct for A1 waits to save, a score request for A1
\* has been answered as a duplicate and the record is already corrected.
C17_Witness ==
  \E t, u \in Threads :
    /\ pc[t] = "update_save" /\ p[t].observation_id = JStr("A1")
    /\ Scored(u) /\ HasError(resp[u]) /\ resp[u].observation_id = JStr("A1")
    /\ \E i \in 1..Len(store) :
         /\ store[i].observation_id = JStr("A1")
         /\ store[i].true_class # JNull
         /\ store[i].true_class # p[t].true_class

\* C19: the save of a score request answers without error exactly when it
\* inserted a record, and with the prediction fields and an error only when
\* the id was already stored; a score request answered with an error and no
\* prediction fields failed one of the nine checks and left the store as it was.
C19_ResponseShapes ==
  [][\A t \in Threads :
       /\ PredictSaveStep(t) =>
            /\ ~HasError(resp'[t]) <=> Len(store') = Len(store) + 1
            /\ HasError(resp'[t]) =>
                 /\ {"prediction", "probability"} \subseteq DOMAIN resp'[t]
                 /\ IsStored(store, p[t].observation_id)
       /\ (PredictBeginStep(t) /\ HasError(resp'[t])) =>
            /\ DOMAIN resp'[t] = {"observation_id", "error"}
            /\ FailingChecks(req'[t].body) # {}
            /\ pc'[t] = "done"
            /\ store' = store]_vars

\* The pipeline invocations made so far for the request of thread t.
Invocations(t) == calls[t].predict + calls[t].predict_proba
\* A returned score request that passed, or failed, the nine checks.
PassedChecks(t) ==
  /\ Returned(t) /\ req[t].route = "/predict"
  /\ req[t].body.kind = "object" /\ ~IsCrash(resp[t])
  /\ FailingChecks(req[t].body) = {}
RejectedByChecks(t) ==
  /\ Returned(t) /\ req[t].route = "/predict"
  /\ req[t].body.kind = "object" /\ ~IsCrash(resp[t])
  /\ FailingChecks(req[t].body) # {}

\* C16 as stated: a score request that passed the nine checks has invoked the
\* pipeline exactly once, a rejected one zero times.
C16_InvokedExactlyOnce ==
  \A t \in Threads :
    /\ PassedChecks(t) => Invocations(t) = 1
    /\ RejectedByChecks(t) => Invocations(t) = 0

\* C16: a score request that passed the nine checks has called
\* pipeline.predict once and pipeline.predict_proba once, two invocations of
\* the pipeline in all; a rejected one has called neither; and the count of a
\* request changes in its validation step only, so nothing is retried, not
\* even when the save fails.
C16_EachEntryPointOnce ==
  /\ [](\A t \in Threads :
          /\ PassedChecks(t) => calls[t] = [predict |-> 1, predict_proba |-> 1]
          /\ RejectedByChecks(t) => calls[t] = NoCalls)
  /\ [][\A t \in Threads :
          (calls'[t] # calls[t] /\ calls'[t] # NoCalls) => PredictBeginStep(t)]_vars

\* C16 witness: one score request was answered as a duplicate after its
\* pipeline calls, another was rejected by a check.
C16_Witness ==
  \E t, u \in Threads :
    /\ PassedChecks(t) /\ HasError(resp[t]) /\ Invocations(t) = 2
    /\ RejectedByChecks(u) /\ Invocations(u) = 0

\* C18: a score request that one of the nine checks rejects is answered in
\* its validation step, which leaves the store as it was; only a request on
\* which no check fails gets to the save; a record enters the store only by
\* the save of such a request; so every stored record holds a request on which
\* no check fails.
C18_RejectedNeverStored ==
  /\ [](\A i \in 1..Len(store) :
          /\ store[i].observation.kind = "object"
          /\ FailingChecks(store[i].observation) = {})
  /\ [](\A t \in Threads :
          pc[t] = "predict_save" => FailingChecks(req[t].body) = {})
  /\ [][/\ \A t \in Threads :
             (/\ PredictBeginStep(t)
              /\ req'[t].body.kind = "object" /\ ~IsCrash(resp'[t])
              /\ FailingChecks(req'[t].body) # {})
               => /\ DOMAIN resp'[t] = {"observation_id", "error"}
                  /\ pc'[t] = "done"
                  /\ store' = store
        /\ Len(store') > Len(store) =>
             \E t \in Threads :
               /\ PredictSaveStep(t)
               /\ FailingChecks(req[t].body) = {}
               /\ store'[Len(store')].observation = req[t].body]_vars

\* C18 witness: with one record stored, a request rejected by the first check
\* and one rejected by the ninth have been answered.
C18_Witness ==
  /\ Len(store) = 1
  /\ \E t, u \in Threads :
       /\ RejectedByChecks(t) /\ Min(FailingChecks(req[t].body)) = 1
       /\ RejectedByChecks(u) /\ Min(FailingChecks(req[u].body)) = 9
====
